---- MODULE Spec2Model ----
(***************************************************************************)
(* A model of src/async.js: a script that runs the same few asynchronous   *)
(* tasks (read a file, follow a two-file chain, fetch a page, count down)  *)
(* in callback, .then and async/await notation on Node's event loop.       *)
(*                                                                         *)
(* The top-level code runs statement by statement (pc); every pending      *)
(* operation (file read, network request, timer) belongs to one activation *)
(* of one function body and is delivered in an event-loop turn of its own, *)
(* which runs the continuation registered for it together with the promise *)
(* jobs that follow from it.  File contents and names are sequences of     *)
(* characters.  console.log output is kept per demonstration.              *)
(***************************************************************************)
EXTENDS Integers, Sequences, FiniteSets, TLC

VARIABLES
    prog,       \* the top-level statements being run (fixed in a behaviour)
    fs,         \* the file system: file name -> content (fixed)
    net,        \* outcome of a request to the network: "ok" or "fail" (fixed)
    pc,         \* index of the next top-level statement
    act,        \* per function body: the state of its activation
    out,        \* per function body: the lines it printed
    reads,      \* per function body: the file names it asked to read
    requests,   \* per function body: the addresses it requested
    timers,     \* bodies with a pending 2000 ms timer, in the order set
    calls,      \* per function body: number of invocations
    unhandled   \* bodies whose promise rejected with no handler attached

vars == <<prog, fs, net, pc, act, out, reads, requests, timers, calls, unhandled>>

----------------------------------------------------------------------------
(* Bounds *)

\* longest file content in the function-level specification
MaxLen == 2
\* longest file content in the whole-script specification
MaxScriptLen == 2

----------------------------------------------------------------------------
(* Values *)

\* characters of file contents in the function-level specification
Chars == {"a", "\n"}
\* characters of file contents in the whole-script specification
ScriptChars == {"t"}

\* all sequences over S of length at most n
BSeq(S, n) == UNION {[1..k -> S] : k \in 0..n}

\* the file name every top-level call passes
One == <<"o", "n", "e">>
\* the address both getCNN functions request
CNN == "http://www.cnn.com"

\* as string, removing the last character only if it is a newline
stringChomp(data) ==
    IF Len(data) > 0 /\ data[Len(data)] = "\n" THEN SubSeq(data, 1, Len(data) - 1)
    ELSE data
\* as string, without the slice
stringIdentity(data) == data
\* const string = data => data.toString().slice(0, -1)
string(data) == SubSeq(data, 1, Len(data) - 1)

\* the static prefixes of the error notices
Oops == "Oops, there was an error:"
OopsT == "Oops, There was an error:"

\* console.log(<text read from a file>)
DataLine(text) == [kind |-> "data", text |-> text]
\* console.log(<prefix>, err)
ErrorLine(prefix, err) == [kind |-> "error", prefix |-> prefix, err |-> err]
\* console.log(<string literal>)
Literal(text) == [kind |-> "literal", text |-> text]

\* the result delivered for a completed operation
Ok(val) == [ok |-> TRUE, val |-> val]
Err(e) == [ok |-> FALSE, val |-> e]

\* fs.readFile / readFilePromise: the outcome of reading `name`
ReadFile(name) == IF name \in DOMAIN fs THEN Ok(fs[name]) ELSE Err("ENOENT")
\* axios.get: the outcome of the request
AxiosGet(url) == IF net = "ok" THEN Ok(url) ELSE Err("ENETWORK")

\* pending operations
NoOp == [kind |-> "none"]
ReadOp(name) == [kind |-> "read", name |-> name]
NetOp(url) == [kind |-> "net", url |-> url]
TimerOp(ms) == [kind |-> "timer", ms |-> ms]

\* the delay every countdown timer is set with
TwoSeconds == 2000

----------------------------------------------------------------------------
(* Activations.  status: "idle" (never invoked), "waiting" (an operation   *)
(* is pending; k is the source line of the continuation that resumes it),  *)
(* "done".  ret is the state of the promise the invocation evaluated to:   *)
(* "none" (no promise), "pending", "fulfilled" or "rejected".              *)

Idle == [status |-> "idle", k |-> 0, op |-> NoOp, env |-> <<>>, ret |-> "none"]

\* an effect: the activation's next state and the lines printed on the way
Wait(k, op, env, ret, print) ==
    [st |-> [status |-> "waiting", k |-> k, op |-> op, env |-> env, ret |-> ret],
     print |-> print]
Done(ret, print) ==
    [st |-> [status |-> "done", k |-> 0, op |-> NoOp, env |-> <<>>, ret |-> ret],
     print |-> print]

----------------------------------------------------------------------------
(* The function bodies.  F(arg) is the synchronous part of a call of F;    *)
(* F_resume(s, r) is what runs when the operation the activation s waits   *)
(* for completes with result r.                                            *)

\* lines 8-11: fs.readFile("one", (err, data) => ...)
chapter1(name) == Wait(8, ReadOp(name), <<>>, "none", <<>>)
chapter1_resume(s, r) ==
    IF ~r.ok THEN Done("none", <<ErrorLine(Oops, r.val)>>)
    ELSE Done("none", <<DataLine(string(r.val))>>)

\* lines 17-20: const promise = readFilePromise("one"); promise.then().catch()
chapter2(name) == Wait(17, ReadOp(name), <<>>, "pending", <<>>)
chapter2_resume(s, r) ==
    IF r.ok THEN Done("fulfilled", <<DataLine(string(r.val))>>)
    ELSE Done("fulfilled", <<ErrorLine(Oops, r.val)>>)

\* lines 24-26: readFilePromise("one").then().catch()
chapter2short(name) == Wait(24, ReadOp(name), <<>>, "pending", <<>>)
chapter2short_resume(s, r) ==
    IF r.ok THEN Done("fulfilled", <<DataLine(string(r.val))>>)
    ELSE Done("fulfilled", <<ErrorLine(Oops, r.val)>>)

\* lines 30-41
scavengerHuntWithCallbacks(fileName1) ==
    Wait(31, ReadOp(fileName1), <<>>, "none", <<>>)
\* as the callbacks of lines 31-38, the last line printing data2 as it is
scavengerHuntWithCallbacks_resumeRaw(s, r) ==
    IF s.k = 31 THEN
        IF ~r.ok THEN Done("none", <<ErrorLine(Oops, r.val)>>)
        ELSE Wait(35, ReadOp(string(r.val)), <<>>, "none", <<>>)
    ELSE
        IF ~r.ok THEN Done("none", <<ErrorLine(Oops, r.val)>>)
        ELSE Done("none", <<DataLine(r.val)>>)
scavengerHuntWithCallbacks_resume(s, r) ==
    IF s.k = 31 THEN
        IF ~r.ok THEN Done("none", <<ErrorLine(Oops, r.val)>>)
        ELSE LET fileName2 == string(r.val)
             IN  Wait(35, ReadOp(fileName2), <<>>, "none", <<>>)
    ELSE
        IF ~r.ok THEN Done("none", <<ErrorLine(Oops, r.val)>>)
        ELSE Done("none", <<DataLine(string(r.val))>>)

\* lines 47-52: a rejection skips the .then handlers down to the .catch,
\* whose handler returns normally, so the returned promise fulfils
scavengerHuntWithPromiseDotThen(fileName1) ==
    Wait(48, ReadOp(fileName1), <<>>, "pending", <<>>)
\* as lines 47-52, with the .catch attached ahead of the second .then, so
\* that a failure of the second read is not handled
scavengerHuntWithPromiseDotThen_resumeEarlyCatch(s, r) ==
    IF s.k = 48 THEN
        IF r.ok THEN Wait(49, ReadOp(string(r.val)), <<>>, "pending", <<>>)
        ELSE Done("fulfilled", <<ErrorLine(Oops, r.val)>>)
    ELSE
        IF r.ok THEN Done("fulfilled", <<DataLine(string(r.val))>>)
        ELSE Done("rejected", <<>>)
scavengerHuntWithPromiseDotThen_resume(s, r) ==
    IF s.k = 48 THEN
        IF r.ok THEN Wait(49, ReadOp(string(r.val)), <<>>, "pending", <<>>)
        ELSE Done("fulfilled", <<ErrorLine(Oops, r.val)>>)
    ELSE
        IF r.ok THEN Done("fulfilled", <<DataLine(string(r.val))>>)
        ELSE Done("fulfilled", <<ErrorLine(Oops, r.val)>>)

\* lines 60-68: the first declaration
scavengerHuntWithPromiseAsyncAwait_60(fileName1) ==
    Wait(62, ReadOp(fileName1), <<>>, "pending", <<>>)
\* as lines 60-68, the second read given data1 as it is
scavengerHuntWithPromiseAsyncAwait_60_resumeRawName(s, r) ==
    IF s.k = 62 THEN
        IF r.ok THEN Wait(63, ReadOp(r.val), <<>>, "pending", <<>>)
        ELSE Done("fulfilled", <<ErrorLine(OopsT, r.val)>>)
    ELSE
        IF r.ok THEN Done("fulfilled", <<DataLine(string(r.val))>>)
        ELSE Done("fulfilled", <<ErrorLine(OopsT, r.val)>>)
scavengerHuntWithPromiseAsyncAwait_60_resume(s, r) ==
    IF s.k = 62 THEN
        IF r.ok THEN Wait(63, ReadOp(string(r.val)), <<>>, "pending", <<>>)
        ELSE Done("fulfilled", <<ErrorLine(OopsT, r.val)>>)
    ELSE
        IF r.ok THEN Done("fulfilled", <<DataLine(string(r.val))>>)
        ELSE Done("fulfilled", <<ErrorLine(OopsT, r.val)>>)

\* lines 74-84: the second declaration
scavengerHuntWithPromiseAsyncAwait_74(fileName1) ==
    LET promise1 == ReadOp(fileName1)
    IN  Wait(77, promise1, <<>>, "pending", <<>>)
\* as lines 74-84, with the second read started although the first failed
scavengerHuntWithPromiseAsyncAwait_74_resumeReadsOn(s, r) ==
    IF s.k = 77 THEN
        IF r.ok THEN Wait(79, ReadOp(string(r.val)), <<>>, "pending", <<>>)
        ELSE Wait(79, ReadOp(<<>>), <<>>, "pending", <<>>)
    ELSE
        IF r.ok THEN Done("fulfilled", <<DataLine(string(r.val))>>)
        ELSE Done("fulfilled", <<ErrorLine(OopsT, r.val)>>)
scavengerHuntWithPromiseAsyncAwait_74_resume(s, r) ==
    IF s.k = 77 THEN
        IF r.ok THEN LET promise2 == ReadOp(string(r.val))
                     IN  Wait(79, promise2, <<>>, "pending", <<>>)
        ELSE Done("fulfilled", <<ErrorLine(OopsT, r.val)>>)
    ELSE
        IF r.ok THEN Done("fulfilled", <<DataLine(string(r.val))>>)
        ELSE Done("fulfilled", <<ErrorLine(OopsT, r.val)>>)

\* the "=>" the log chains put between the names
Arrow == <<"=", ">">>

\* lines 88-97: name2 is a local the first .then handler assigns
\* as line 90 without its return: the call evaluates to no promise
logChainWithDotThenNoReturn(name1) ==
    Wait(90, ReadOp(name1), [name1 |-> name1], "none", <<>>)
logChainWithDotThen(name1) ==
    Wait(90, ReadOp(name1), [name1 |-> name1], "pending", <<>>)
\* as lines 88-97, with name2 declared outside the function and assigned by
\* logChainWithAwait too (the raw data1 it holds while its second read is on)
logChainWithDotThen_resumeSharedName2(s, r) ==
    IF s.k = 90 THEN
        IF r.ok THEN
            Wait(93, ReadOp(string(r.val)),
                 [name1 |-> s.env.name1, name2 |-> string(r.val)], "pending", <<>>)
        ELSE Done("fulfilled", <<ErrorLine(Oops, r.val)>>)
    ELSE
        IF r.ok THEN
            LET other == act["logChainWithAwait"]
                name2 == IF other.status = "waiting" /\ other.k = 104
                         THEN other.env.data1 ELSE s.env.name2
            IN  Done("fulfilled",
                     <<DataLine(s.env.name1 \o Arrow \o name2 \o Arrow
                                \o string(r.val))>>)
        ELSE Done("fulfilled", <<ErrorLine(Oops, r.val)>>)
logChainWithDotThen_resume(s, r) ==
    IF s.k = 90 THEN
        IF r.ok THEN
            LET name2 == string(r.val)
            IN  Wait(93, ReadOp(string(r.val)),
                     [name1 |-> s.env.name1, name2 |-> name2], "pending", <<>>)
        ELSE Done("fulfilled", <<ErrorLine(Oops, r.val)>>)
    ELSE
        IF r.ok THEN
            Done("fulfilled",
                 <<DataLine(s.env.name1 \o Arrow \o s.env.name2 \o Arrow
                            \o string(r.val))>>)
        ELSE Done("fulfilled", <<ErrorLine(Oops, r.val)>>)

\* lines 101-109
logChainWithAwait(name1) ==
    Wait(103, ReadOp(name1), [name1 |-> name1], "pending", <<>>)
\* as lines 101-109, with a console.log of the chain after the try/catch as
\* well, reached when the catch has logged
logChainWithAwait_resumeLogsAfterCatch(s, r) ==
    IF s.k = 103 THEN
        IF r.ok THEN
            Wait(104, ReadOp(string(r.val)),
                 [name1 |-> s.env.name1, data1 |-> r.val], "pending", <<>>)
        ELSE Done("fulfilled", <<ErrorLine(OopsT, r.val), DataLine(s.env.name1)>>)
    ELSE
        IF r.ok THEN
            Done("fulfilled",
                 <<DataLine(s.env.name1 \o Arrow \o string(s.env.data1) \o Arrow
                            \o string(r.val))>>)
        ELSE Done("fulfilled", <<ErrorLine(OopsT, r.val), DataLine(s.env.name1)>>)
\* as lines 101-109, the middle name printed as data1 is, without string
logChainWithAwait_resumeRawName(s, r) ==
    IF s.k = 103 THEN
        IF r.ok THEN
            Wait(104, ReadOp(string(r.val)),
                 [name1 |-> s.env.name1, data1 |-> r.val], "pending", <<>>)
        ELSE Done("fulfilled", <<ErrorLine(OopsT, r.val)>>)
    ELSE
        IF r.ok THEN
            Done("fulfilled",
                 <<DataLine(s.env.name1 \o Arrow \o s.env.data1 \o Arrow
                            \o string(r.val))>>)
        ELSE Done("fulfilled", <<ErrorLine(OopsT, r.val)>>)
logChainWithAwait_resume(s, r) ==
    IF s.k = 103 THEN
        IF r.ok THEN
            Wait(104, ReadOp(string(r.val)),
                 [name1 |-> s.env.name1, data1 |-> r.val], "pending", <<>>)
        ELSE Done("fulfilled", <<ErrorLine(OopsT, r.val)>>)
    ELSE
        IF r.ok THEN
            Done("fulfilled",
                 <<DataLine(s.env.name1 \o Arrow \o string(s.env.data1) \o Arrow
                            \o string(r.val))>>)
        ELSE Done("fulfilled", <<ErrorLine(OopsT, r.val)>>)

\* the four markers of the interleaving demonstration
Marker1 == Literal("1before do two things")
Marker2 == Literal("2in do two things before await")
Marker3 == Literal("3after do two things")
Marker4 == Literal("4in do two things after await")

\* lines 115-119: no try/catch, so a failed request rejects the promise the
\* call returned
getCNN_async_await(arg) ==
    Wait(117, NetOp(CNN), <<>>, "pending", <<Marker2>>)
getCNN_async_await_resume(s, r) ==
    IF r.ok THEN Done("fulfilled", <<Marker4>>)
    ELSE Done("rejected", <<>>)

\* lines 126-131: the promise of .then is returned, with no .catch
getCNN_dot_then(arg) ==
    Wait(128, NetOp(CNN), <<>>, "pending", <<Marker2>>)
\* as lines 128-130, the handler given to .then for rejection as well
getCNN_dot_then_resumeOnEither(s, r) ==
    IF r.ok THEN Done("fulfilled", <<Marker4>>)
    ELSE Done("fulfilled", <<Marker4>>)
getCNN_dot_then_resume(s, r) ==
    IF r.ok THEN Done("fulfilled", <<Marker4>>)
    ELSE Done("rejected", <<>>)

\* lines 136-138: setTimeout(callback, 2000)
waitTwoSecondsWithCallback == TimerOp(TwoSeconds)
\* lines 157-159: new Promise(resolve => setTimeout(resolve, 2000))
waitTwoSecondsWithPromise == TimerOp(TwoSeconds)

\* lines 141-154
countDownWithCallback(arg) ==
    Wait(142, waitTwoSecondsWithCallback, <<>>, "none", <<>>)
countDownWithCallback_resume(s, r) ==
    CASE s.k = 142 ->
           Wait(144, waitTwoSecondsWithCallback, <<>>, "none",
                <<Literal("You have six seconds, starting now!!")>>)
      [] s.k = 144 ->
           Wait(146, waitTwoSecondsWithCallback, <<>>, "none",
                <<Literal("You have four seconds left.")>>)
      [] s.k = 146 ->
           Wait(148, waitTwoSecondsWithCallback, <<>>, "none",
                <<Literal("You have just two seconds left. You'd better hurry!!")>>)
      [] OTHER -> Done("none", <<Literal("That's it!! Time's up!!")>>)

\* lines 162-179: the chain is not returned
countDownWithPromiseDotThen(arg) ==
    Wait(163, waitTwoSecondsWithPromise, <<>>, "none", <<>>)
\* as lines 162-179, the first handler not returning the promise of its
\* timer, so that the second handler runs in the same turn
countDownWithPromiseDotThen_resumeNoReturn(s, r) ==
    CASE s.k = 163 ->
           Wait(170, waitTwoSecondsWithPromise, <<>>, "none",
                <<Literal("You have six seconds, starting now!!"),
                  Literal("You have four seconds left.")>>)
      [] s.k = 170 ->
           Wait(174, waitTwoSecondsWithPromise, <<>>, "none",
                <<Literal("You have just two seconds left. You'd better hurry!!")>>)
      [] OTHER -> Done("none", <<Literal("That's it! Time's up!!")>>)
countDownWithPromiseDotThen_resume(s, r) ==
    CASE s.k = 163 ->
           Wait(166, waitTwoSecondsWithPromise, <<>>, "none",
                <<Literal("You have six seconds, starting now!!")>>)
      [] s.k = 166 ->
           Wait(170, waitTwoSecondsWithPromise, <<>>, "none",
                <<Literal("You have four seconds left.")>>)
      [] s.k = 170 ->
           Wait(174, waitTwoSecondsWithPromise, <<>>, "none",
                <<Literal("You have just two seconds left. You'd better hurry!!")>>)
      [] OTHER -> Done("none", <<Literal("That's it! Time's up!!")>>)

\* lines 182-191
countDownWithPromiseAsyncAwait(arg) ==
    Wait(183, waitTwoSecondsWithPromise, <<>>, "pending", <<>>)
countDownWithPromiseAsyncAwait_resume(s, r) ==
    CASE s.k = 183 ->
           Wait(185, waitTwoSecondsWithPromise, <<>>, "pending",
                <<Literal("You have six seconds, starting now!!")>>)
      [] s.k = 185 ->
           Wait(187, waitTwoSecondsWithPromise, <<>>, "pending",
                <<Literal("You have four seconds left.")>>)
      [] s.k = 187 ->
           Wait(189, waitTwoSecondsWithPromise, <<>>, "pending",
                <<Literal("You have just two seconds left. You'd really better hurry!!")>>)
      [] OTHER -> Done("fulfilled", <<Literal("That's it! Time's up!!")>>)

----------------------------------------------------------------------------
(* Declarations and dispatch *)

Bodies ==
    {"chapter1", "chapter2", "chapter2short",
     "scavengerHuntWithCallbacks", "scavengerHuntWithPromiseDotThen",
     "scavengerHuntWithPromiseAsyncAwait_60",
     "scavengerHuntWithPromiseAsyncAwait_74",
     "logChainWithDotThen", "logChainWithAwait",
     "getCNN_async_await", "getCNN_dot_then",
     "countDownWithCallback", "countDownWithPromiseDotThen",
     "countDownWithPromiseAsyncAwait"}

\* the function declarations of the file, in source order
Declarations ==
    << [name |-> "scavengerHuntWithCallbacks", body |-> "scavengerHuntWithCallbacks"],
       [name |-> "scavengerHuntWithPromiseDotThen", body |-> "scavengerHuntWithPromiseDotThen"],
       [name |-> "scavengerHuntWithPromiseAsyncAwait", body |-> "scavengerHuntWithPromiseAsyncAwait_60"],
       [name |-> "scavengerHuntWithPromiseAsyncAwait", body |-> "scavengerHuntWithPromiseAsyncAwait_74"],
       [name |-> "logChainWithDotThen", body |-> "logChainWithDotThen"],
       [name |-> "logChainWithAwait", body |-> "logChainWithAwait"],
       [name |-> "getCNN_async_await", body |-> "getCNN_async_await"],
       [name |-> "getCNN_dot_then", body |-> "getCNN_dot_then"],
       [name |-> "countDownWithCallback", body |-> "countDownWithCallback"],
       [name |-> "countDownWithPromiseDotThen", body |-> "countDownWithPromiseDotThen"],
       [name |-> "countDownWithPromiseAsyncAwait", body |-> "countDownWithPromiseAsyncAwait"] >>

\* function declarations are hoisted, and of two declarations of one name the
\* later one is the binding every call sees
\* as Lookup, the earlier of two declarations of one name winning
LookupFirst(name) ==
    LET idx == {i \in DOMAIN Declarations : Declarations[i].name = name}
    IN  Declarations[CHOOSE i \in idx : \A j \in idx : i <= j].body
Lookup(name) ==
    LET idx == {i \in DOMAIN Declarations : Declarations[i].name = name}
    IN  Declarations[CHOOSE i \in idx : \A j \in idx : j <= i].body

\* the synchronous part of an invocation of body b
Invoke(b, arg) ==
    CASE b = "chapter1" -> chapter1(arg)
      [] b = "chapter2" -> chapter2(arg)
      [] b = "chapter2short" -> chapter2short(arg)
      [] b = "scavengerHuntWithCallbacks" -> scavengerHuntWithCallbacks(arg)
      [] b = "scavengerHuntWithPromiseDotThen" -> scavengerHuntWithPromiseDotThen(arg)
      [] b = "scavengerHuntWithPromiseAsyncAwait_60" -> scavengerHuntWithPromiseAsyncAwait_60(arg)
      [] b = "scavengerHuntWithPromiseAsyncAwait_74" -> scavengerHuntWithPromiseAsyncAwait_74(arg)
      [] b = "logChainWithDotThen" -> logChainWithDotThen(arg)
      [] b = "logChainWithAwait" -> logChainWithAwait(arg)
      [] b = "getCNN_async_await" -> getCNN_async_await(arg)
      [] b = "getCNN_dot_then" -> getCNN_dot_then(arg)
      [] b = "countDownWithCallback" -> countDownWithCallback(arg)
      [] b = "countDownWithPromiseDotThen" -> countDownWithPromiseDotThen(arg)
      [] b = "countDownWithPromiseAsyncAwait" -> countDownWithPromiseAsyncAwait(arg)

\* the continuation of body b's activation s on result r
Resume(b, s, r) ==
    CASE b = "chapter1" -> chapter1_resume(s, r)
      [] b = "chapter2" -> chapter2_resume(s, r)
      [] b = "chapter2short" -> chapter2short_resume(s, r)
      [] b = "scavengerHuntWithCallbacks" -> scavengerHuntWithCallbacks_resume(s, r)
      [] b = "scavengerHuntWithPromiseDotThen" -> scavengerHuntWithPromiseDotThen_resume(s, r)
      [] b = "scavengerHuntWithPromiseAsyncAwait_60" -> scavengerHuntWithPromiseAsyncAwait_60_resume(s, r)
      [] b = "scavengerHuntWithPromiseAsyncAwait_74" -> scavengerHuntWithPromiseAsyncAwait_74_resume(s, r)
      [] b = "logChainWithDotThen" -> logChainWithDotThen_resume(s, r)
      [] b = "logChainWithAwait" -> logChainWithAwait_resume(s, r)
      [] b = "getCNN_async_await" -> getCNN_async_await_resume(s, r)
      [] b = "getCNN_dot_then" -> getCNN_dot_then_resume(s, r)
      [] b = "countDownWithCallback" -> countDownWithCallback_resume(s, r)
      [] b = "countDownWithPromiseDotThen" -> countDownWithPromiseDotThen_resume(s, r)
      [] b = "countDownWithPromiseAsyncAwait" -> countDownWithPromiseAsyncAwait_resume(s, r)

----------------------------------------------------------------------------
(* The top-level code *)

Run(b, arg) == [op |-> "run", body |-> b, arg |-> arg]
Call(name, arg) == [op |-> "call", name |-> name, arg |-> arg]
Log(line, to) == [op |-> "log", line |-> line, to |-> to]

\* the statements of src/async.js that do something at load time, in source
\* order (lines 8, 17, 24, 43, 54, 70, 99, 111, 121, 122, 123, 193, 194, 195)
Script ==
    << Run("chapter1", One),
       Run("chapter2", One),
       Run("chapter2short", One),
       Call("scavengerHuntWithCallbacks", One),
       Call("scavengerHuntWithPromiseDotThen", One),
       Call("scavengerHuntWithPromiseAsyncAwait", One),
       Call("logChainWithDotThen", One),
       Call("logChainWithAwait", One),
       Log(Marker1, "getCNN_async_await"),
       Call("getCNN_async_await", <<>>),
       Log(Marker3, "getCNN_async_await"),
       Call("countDownWithCallback", <<>>),
       Call("countDownWithPromiseDotThen", <<>>),
       Call("countDownWithPromiseAsyncAwait", <<>>) >>

\* each scavenger-hunt body applied to "one", then lines 121-123, once as
\* written and once with getCNN_dot_then in the place of getCNN_async_await
Harness ==
    << Run("scavengerHuntWithCallbacks", One),
       Run("scavengerHuntWithPromiseDotThen", One),
       Run("scavengerHuntWithPromiseAsyncAwait_60", One),
       Run("scavengerHuntWithPromiseAsyncAwait_74", One),
       Log(Marker1, "getCNN_async_await"),
       Run("getCNN_async_await", <<>>),
       Log(Marker3, "getCNN_async_await"),
       Log(Marker1, "getCNN_dot_then"),
       Run("getCNN_dot_then", <<>>),
       Log(Marker3, "getCNN_dot_then") >>

\* the body a statement invokes
BodyOf(stmt) == IF stmt.op = "call" THEN Lookup(stmt.name) ELSE stmt.body

\* deferred work is resumed only after the synchronous code has finished
\* as TopLevelDone, a completion being delivered between two statements
TopLevelAnywhere == TRUE
TopLevelDone == pc > Len(prog)

----------------------------------------------------------------------------
(* File systems *)

\* the name a file's content designates: the content less its terminator
NamedBy(content) == SubSeq(content, 1, Len(content) - 1)

\* the file systems holding at most "one", with a content in C, and the file
\* that content names, with a content in C
FileSystems(C) ==
    {<<>>}
    \cup {One :> c1 : c1 \in C}
    \cup {(One :> c1) @@ (NamedBy(c1) :> c2) : c1 \in {c \in C : Len(c) >= 2}, c2 \in C}

\* any content of at most MaxLen characters
Contents == BSeq(Chars, MaxLen)
\* a name of at least one character and the character after it
ScriptContents == {c \in BSeq(ScriptChars, MaxScriptLen) : Len(c) >= 2}

----------------------------------------------------------------------------
(* Actions *)

\* body b's activation moves on as effect e says; tq is the timer list left
Apply(b, e, tq) ==
    /\ act' = [act EXCEPT ![b] = e.st]
    /\ out' = [out EXCEPT ![b] = @ \o e.print]
    /\ reads' = IF e.st.op.kind = "read"
                THEN [reads EXCEPT ![b] = Append(@, e.st.op.name)] ELSE reads
    /\ requests' = IF e.st.op.kind = "net"
                   THEN [requests EXCEPT ![b] = Append(@, e.st.op.url)] ELSE requests
    /\ timers' = IF e.st.op.kind = "timer" THEN Append(tq, b) ELSE tq
    /\ unhandled' = IF e.st.ret = "rejected" THEN unhandled \cup {b} ELSE unhandled

\* one top-level statement
TopLevel ==
    /\ pc <= Len(prog)
    /\ pc' = pc + 1
    /\ LET stmt == prog[pc]
       IN  IF stmt.op = "log"
           THEN /\ out' = [out EXCEPT ![stmt.to] = Append(@, stmt.line)]
                /\ UNCHANGED <<act, reads, requests, timers, calls, unhandled>>
           ELSE LET b == BodyOf(stmt)
                IN  /\ calls' = [calls EXCEPT ![b] = @ + 1]
                    /\ Apply(b, Invoke(b, stmt.arg), timers)
    /\ UNCHANGED <<prog, fs, net>>

\* a file read completes and its continuation runs
ReadDone(b) ==
    /\ TopLevelDone
    /\ act[b].status = "waiting"
    /\ act[b].op.kind = "read"
    /\ Apply(b, Resume(b, act[b], ReadFile(act[b].op.name)), timers)
    /\ UNCHANGED <<prog, fs, net, pc, calls>>

\* the network request completes and its continuation runs
NetDone(b) ==
    /\ TopLevelDone
    /\ act[b].status = "waiting"
    /\ act[b].op.kind = "net"
    /\ Apply(b, Resume(b, act[b], AxiosGet(act[b].op.url)), timers)
    /\ UNCHANGED <<prog, fs, net, pc, calls>>

\* as TimerFired, any pending timer firing
TimerFiredAnyOrder ==
    /\ TopLevelDone
    /\ \E i \in DOMAIN timers :
           LET b == timers[i]
               rest == [j \in 1..(Len(timers) - 1) |->
                           IF j < i THEN timers[j] ELSE timers[j + 1]]
           IN  Apply(b, Resume(b, act[b], Ok(<<>>)), rest)
    /\ UNCHANGED <<prog, fs, net, pc, calls>>

\* the earliest timer fires: timers of one delay fire in the order set
TimerFired ==
    /\ TopLevelDone
    /\ timers # <<>>
    /\ LET b == Head(timers)
       IN  Apply(b, Resume(b, act[b], Ok(<<>>)), Tail(timers))
    /\ UNCHANGED <<prog, fs, net, pc, calls>>

InitRun ==
    /\ pc = 1
    /\ act = [b \in Bodies |-> Idle]
    /\ out = [b \in Bodies |-> <<>>]
    /\ reads = [b \in Bodies |-> <<>>]
    /\ requests = [b \in Bodies |-> <<>>]
    /\ timers = <<>>
    /\ calls = [b \in Bodies |-> 0]
    /\ unhandled = {}

\* the script, on any file system and network
Init ==
    /\ prog = Script
    /\ fs \in FileSystems(ScriptContents)
    /\ net \in {"ok", "fail"}
    /\ InitRun

Next ==
    \/ TopLevel
    \/ \E b \in Bodies : ReadDone(b)
    \/ \E b \in Bodies : NetDone(b)
    \/ TimerFired

Spec == Init /\ [][Next]_vars

\* the function bodies one by one, on any file system and network
InitFn ==
    /\ prog = Harness
    /\ fs \in FileSystems(Contents)
    /\ net \in {"ok", "fail"}
    /\ InitRun

NextFn ==
    \/ TopLevel
    \/ \E b \in Bodies : ReadDone(b)
    \/ \E b \in Bodies : NetDone(b)

SpecFn == InitFn /\ [][NextFn]_vars

\* each scavenger-hunt and log-chain body applied to "one", as lines 43-111
\* call them
ReadsHarness ==
    << Run("scavengerHuntWithCallbacks", One),
       Run("scavengerHuntWithPromiseDotThen", One),
       Run("scavengerHuntWithPromiseAsyncAwait_60", One),
       Run("scavengerHuntWithPromiseAsyncAwait_74", One),
       Run("logChainWithDotThen", One),
       Run("logChainWithAwait", One) >>

\* the file-reading functions one by one, on any file system
InitReads ==
    /\ prog = ReadsHarness
    /\ fs \in FileSystems(Contents)
    /\ net = "ok"
    /\ InitRun

NextReads ==
    \/ TopLevel
    \/ \E b \in Bodies : ReadDone(b)

SpecReads == InitReads /\ [][NextReads]_vars

----------------------------------------------------------------------------
(* Vocabulary of the properties *)

IsPrefix(s, t) == Len(s) <= Len(t) /\ \A i \in 1..Len(s) : s[i] = t[i]

\* a sequence without its last element; the empty sequence stays empty
AllButLast(s) == [i \in 1..(Len(s) - 1) |-> s[i]]

HuntCallbacks == "scavengerHuntWithCallbacks"
HuntDotThen == "scavengerHuntWithPromiseDotThen"
HuntAsyncAwait == Lookup("scavengerHuntWithPromiseAsyncAwait")
HuntVariants == {HuntCallbacks, HuntDotThen, HuntAsyncAwait}

IsDone(b) == act[b].status = "done"

\* the first file exists and its content names a file that exists
FirstReadFails == One \notin DOMAIN fs
SecondReadFails == One \in DOMAIN fs /\ AllButLast(fs[One]) \notin DOMAIN fs
ValidChain == One \in DOMAIN fs /\ AllButLast(fs[One]) \in DOMAIN fs
\* the content of the second file of a valid chain
ContentC == fs[AllButLast(fs[One])]

OneErrorNotice(b) == Len(out[b]) = 1 /\ out[b][1].kind = "error"

----------------------------------------------------------------------------
(* C1 *)

\* C1 as stated: on a valid two-level chain whose second file has content C,
\* each scavenger-hunt variant prints nothing until it is done and then has
\* printed the one line C.
C1_PrintsContentC ==
    ValidChain =>
        \A b \in HuntVariants :
            IF IsDone(b) THEN out[b] = <<DataLine(ContentC)>> ELSE out[b] = <<>>

\* C1 amended: on a valid two-level chain whose second file has content C,
\* each of the three scavenger-hunt variants prints the same single line, C
\* without its last character, and nothing else.
C1_PrintsContentCLessLastChar ==
    ValidChain =>
        \A b \in HuntVariants :
            IF IsDone(b) THEN out[b] = <<DataLine(AllButLast(ContentC))>>
            ELSE out[b] = <<>>

C1_Witness ==
    /\ ValidChain
    /\ Len(ContentC) = MaxLen
    /\ \A b \in HuntVariants : IsDone(b) /\ Len(out[b]) = 1

----------------------------------------------------------------------------
(* C2 *)

\* C2: when the read of the first file fails, each scavenger-hunt variant
\* prints one error notice and never asks for a second file.
C2_FirstReadFailure ==
    FirstReadFails =>
        \A b \in HuntVariants :
            /\ IsPrefix(reads[b], <<One>>)
            /\ IF IsDone(b) THEN OneErrorNotice(b) ELSE out[b] = <<>>

C2_Witness ==
    /\ FirstReadFails
    /\ \A b \in HuntVariants : IsDone(b) /\ reads[b] = <<One>> /\ OneErrorNotice(b)

----------------------------------------------------------------------------
(* C3 *)

InterleavingDemos == {"getCNN_async_await", "getCNN_dot_then"}

\* C3: with await and with .then alike, the markers come out in the order
\* 1, 2, 3, 4, and marker 4 only once the top-level code has finished.
C3_MarkerOrder ==
    \A b \in InterleavingDemos :
        /\ IsPrefix(out[b], <<Marker1, Marker2, Marker3, Marker4>>)
        /\ (Len(out[b]) = 4 => TopLevelDone)

C3_Witness ==
    \A b \in InterleavingDemos : out[b] = <<Marker1, Marker2, Marker3, Marker4>>

----------------------------------------------------------------------------
(* C4 *)

CountDowns ==
    <<"countDownWithCallback", "countDownWithPromiseDotThen",
      "countDownWithPromiseAsyncAwait">>

\* C4: the top-level statements run in source order and, until the last of
\* them has run, nothing is printed but markers 1, 2, 3 and no continuation
\* has run; afterwards continuations run as their operations complete, so the
\* three countdowns, whose timers expire in the order set, advance in step.
C4_SynchronousCodeFirst ==
    /\ \A i \in DOMAIN prog :
           prog[i].op # "log" => (calls[BodyOf(prog[i])] = IF i < pc THEN 1 ELSE 0)
    /\ ~TopLevelDone =>
           \A b \in Bodies :
               /\ ~IsDone(b)
               /\ act[b].status = "waiting" => act[b] = Invoke(b, One).st
               /\ IF b = "getCNN_async_await"
                  THEN IsPrefix(out[b], <<Marker1, Marker2, Marker3>>)
                  ELSE out[b] = <<>>
    /\ Len(out[CountDowns[1]]) >= Len(out[CountDowns[2]])
    /\ Len(out[CountDowns[2]]) >= Len(out[CountDowns[3]])
    /\ Len(out[CountDowns[3]]) >= Len(out[CountDowns[1]]) - 1

C4_Witness ==
    /\ TopLevelDone
    /\ Len(out[CountDowns[1]]) = 3
    /\ Len(out[CountDowns[3]]) = 2
    /\ IsDone("chapter1")
    /\ out["getCNN_async_await"] = <<Marker1, Marker2, Marker3, Marker4>>

----------------------------------------------------------------------------
(* C5 *)

\* an operation body b started has failed
FailedIn(b) ==
    \/ \E i \in DOMAIN reads[b] : reads[b][i] \notin DOMAIN fs
    \/ requests[b] # <<>> /\ net = "fail"

\* C5 as stated: no failure escapes as an unhandled rejection; a body whose
\* operation failed has logged one error notice with a static prefix when it
\* ends, and it starts no operation again after the failure.
C5_EveryFailureCaughtAndLogged ==
    /\ unhandled = {}
    /\ \A b \in Bodies :
           IsDone(b) /\ FailedIn(b) =>
               /\ OneErrorNotice(b) \/ (Len(out[b]) > 1 /\ out[b][Len(out[b])].kind = "error")
               /\ out[b][Len(out[b])].prefix \in {Oops, OopsT}
               /\ Len(requests[b]) <= 1

----------------------------------------------------------------------------
(* C6 *)

\* what each demonstration prints, as a function of the files and the network
ExpectedError(prefix) == <<ErrorLine(prefix, "ENOENT")>>
ExpectedRead(prefix) ==
    IF FirstReadFails THEN ExpectedError(prefix)
    ELSE <<DataLine(AllButLast(fs[One]))>>
ExpectedHunt(prefix) ==
    IF ValidChain THEN <<DataLine(AllButLast(ContentC))>> ELSE ExpectedError(prefix)
ExpectedChain(prefix) ==
    IF ValidChain
    THEN <<DataLine(One \o Arrow \o AllButLast(fs[One]) \o Arrow \o AllButLast(ContentC))>>
    ELSE ExpectedError(prefix)
ExpectedMarkers ==
    <<Marker1, Marker2, Marker3>> \o (IF net = "ok" THEN <<Marker4>> ELSE <<>>)
ExpectedCountDown(two, last) ==
    <<Literal("You have six seconds, starting now!!"),
      Literal("You have four seconds left."), Literal(two), Literal(last)>>
Expected(b) ==
    CASE b \in {"chapter1", "chapter2", "chapter2short"} -> ExpectedRead(Oops)
      [] b \in {"scavengerHuntWithCallbacks", "scavengerHuntWithPromiseDotThen"} ->
           ExpectedHunt(Oops)
      [] b = "scavengerHuntWithPromiseAsyncAwait_74" -> ExpectedHunt(OopsT)
      [] b = "logChainWithDotThen" -> ExpectedChain(Oops)
      [] b = "logChainWithAwait" -> ExpectedChain(OopsT)
      [] b = "getCNN_async_await" -> ExpectedMarkers
      [] b = "countDownWithCallback" ->
           ExpectedCountDown("You have just two seconds left. You'd better hurry!!",
                             "That's it!! Time's up!!")
      [] b = "countDownWithPromiseDotThen" ->
           ExpectedCountDown("You have just two seconds left. You'd better hurry!!",
                             "That's it! Time's up!!")
      [] b = "countDownWithPromiseAsyncAwait" ->
           ExpectedCountDown("You have just two seconds left. You'd really better hurry!!",
                             "That's it! Time's up!!")
      [] OTHER -> <<>>

\* nothing is left to run
Quiescent == TopLevelDone /\ \A b \in Bodies : act[b].status # "waiting"

\* a step changed something of body b
Touched(b) ==
    \/ act'[b] # act[b]
    \/ out'[b] # out[b]
    \/ reads'[b] # reads[b]
    \/ requests'[b] # requests[b]

C6_SameLines ==
    \A b \in Bodies :
        /\ IsPrefix(out[b], Expected(b))
        /\ Quiescent => out[b] = Expected(b)

----------------------------------------------------------------------------
(* C7 *)

AllReads == UNION {{reads[b][i] : i \in DOMAIN reads[b]} : b \in Bodies}
AllRequests == UNION {{<<b, i>> : i \in DOMAIN requests[b]} : b \in Bodies}

\* exactly one request is made, by the end of the top-level code, to the
\* fixed address
OneRequest ==
    /\ \A b \in Bodies : Len(requests[b]) <= 1
    /\ \A b \in Bodies : \A i \in DOMAIN requests[b] : requests[b][i] = CNN
    /\ Cardinality(AllRequests) <= 1
    /\ TopLevelDone => Cardinality(AllRequests) = 1

\* C7 as stated: one request, to http://www.cnn.com, and the only files read
\* are "one" and the file whose name is the content of "one".
C7_ReadsOneAndItsContent ==
    /\ OneRequest
    /\ AllReads \subseteq
           {One} \cup (IF One \in DOMAIN fs THEN {fs[One]} ELSE {})

\* C7 amended: one request, to http://www.cnn.com, and the only files read
\* are "one" and the file whose name is the content of "one" without its
\* last character.
C7_ReadsOneAndTheFileItNames ==
    /\ OneRequest
    /\ AllReads \subseteq
           {One} \cup (IF One \in DOMAIN fs THEN {AllButLast(fs[One])} ELSE {})

C7_Witness ==
    /\ Quiescent
    /\ One \in DOMAIN fs
    /\ Len(fs[One]) = MaxScriptLen
    /\ AllReads = {One, AllButLast(fs[One])}
    /\ requests["getCNN_async_await"] = <<CNN>>

----------------------------------------------------------------------------
(* C8 *)

DemoNames == {Declarations[i].name : i \in DOMAIN Declarations}

\* C8 as stated: every demonstration function the script defines has been
\* invoked exactly once when the top-level code has finished.
C8_EachInvokedOnce ==
    /\ \A b \in Bodies : calls[b] <= 1
    /\ TopLevelDone => \A n \in DemoNames : calls[Lookup(n)] = 1

\* C8 amended: every demonstration function the script defines except
\* getCNN_dot_then has been invoked exactly once when the top-level code has
\* finished, the call of scavengerHuntWithPromiseAsyncAwait running its second
\* declaration and never its first; getCNN_dot_then is never invoked.
C8_EachButDotThenInvokedOnce ==
    /\ \A b \in Bodies : calls[b] <= 1
    /\ calls["getCNN_dot_then"] = 0
    /\ calls["scavengerHuntWithPromiseAsyncAwait_60"] = 0
    /\ TopLevelDone =>
           /\ \A n \in DemoNames \ {"getCNN_dot_then"} : calls[Lookup(n)] = 1
           /\ calls["scavengerHuntWithPromiseAsyncAwait_74"] = 1

C8_Witness ==
    /\ Quiescent
    /\ calls["scavengerHuntWithPromiseAsyncAwait_74"] = 1
    /\ calls["countDownWithPromiseAsyncAwait"] = 1
    /\ calls["getCNN_dot_then"] = 0

----------------------------------------------------------------------------
(* C9 *)

\* C9: in the .then variant a failure of either read, and in the callback and
\* async/await variants a failure of the second read, ends in exactly one
\* error notice and no printed content.
C9_SingleCatch ==
    /\ FirstReadFails \/ SecondReadFails =>
           IF IsDone(HuntDotThen) THEN OneErrorNotice(HuntDotThen)
           ELSE out[HuntDotThen] = <<>>
    /\ SecondReadFails =>
           \A b \in {HuntCallbacks, HuntAsyncAwait} :
               IF IsDone(b) THEN OneErrorNotice(b) ELSE out[b] = <<>>

C9_Witness ==
    /\ SecondReadFails
    /\ \A b \in HuntVariants : IsDone(b) /\ Len(reads[b]) = 2 /\ OneErrorNotice(b)

----------------------------------------------------------------------------
(* C10 *)

Terse == "scavengerHuntWithPromiseAsyncAwait_60"
Longer == "scavengerHuntWithPromiseAsyncAwait_74"

\* C10: the two declarations of scavengerHuntWithPromiseAsyncAwait ask for
\* the same files in the same order and print the same line, whatever the
\* outcome of the two reads.
C10_SameFunction ==
    /\ IsPrefix(reads[Terse], reads[Longer]) \/ IsPrefix(reads[Longer], reads[Terse])
    /\ Len(reads[Terse]) = Len(reads[Longer]) /\ IsDone(Terse) = IsDone(Longer) =>
           /\ reads[Terse] = reads[Longer]
           /\ out[Terse] = out[Longer]
           /\ act[Terse].ret = act[Longer].ret
    /\ \A b \in {Terse, Longer} : IsDone(b) <=> Len(out[b]) = 1

C10_Witness ==
    /\ IsDone(Terse) /\ IsDone(Longer)
    /\ Len(reads[Terse]) = 2
    /\ out[Terse] = out[Longer]
    /\ out[Terse][1].kind = "data"

----------------------------------------------------------------------------
(* C11 *)

ChainDotThen == "logChainWithDotThen"
ChainAwait == "logChainWithAwait"

\* the line name1 + "=>" + name2 + "=>" + C of a valid chain read from "one"
ChainLineOfOne ==
    DataLine(One \o Arrow \o AllButLast(fs[One]) \o Arrow \o AllButLast(ContentC))

\* C11: on a valid two-level chain logChainWithDotThen and logChainWithAwait
\* print the same single line: the first name, "=>", the second file's name
\* (the first content less its last character), "=>", and the second file's
\* content as printed (less its last character).
C11_SameChainLine ==
    ValidChain =>
        \A b \in {ChainDotThen, ChainAwait} :
            IF IsDone(b) THEN out[b] = <<ChainLineOfOne>> ELSE out[b] = <<>>

C11_Witness ==
    /\ ValidChain
    /\ Len(ContentC) = MaxLen
    /\ IsDone(ChainDotThen) /\ IsDone(ChainAwait)
    /\ out[ChainDotThen] = out[ChainAwait]
    /\ Len(out[ChainAwait]) = 1

----------------------------------------------------------------------------
(* C12 *)

CountDownBodies == {CountDowns[i] : i \in DOMAIN CountDowns}

\* the timers of body b that are set and have not fired
PendingTimers(b) == {i \in DOMAIN timers : timers[i] = b}

C12_CountDownState ==
    \A b \in CountDownBodies :
        /\ IsPrefix(out[b], Expected(b))
        /\ Len(Expected(b)) = 4
        /\ IsDone(b) <=> Len(out[b]) = 4
        /\ Cardinality(PendingTimers(b)) = IF act[b].status = "waiting" THEN 1 ELSE 0
        /\ act[b].status = "waiting" => act[b].op = TimerOp(TwoSeconds)
        /\ calls[b] = 1 => act[b].status # "idle"

\* C12: each countdown prints its four messages in the fixed order, one per
\* firing of a two-second timer of its own, the first timer set by the call
\* and each next one by the message before it; it never has two timers
\* pending and prints nothing but when its timer fires.
C12_OneMessagePerTimer ==
    /\ []C12_CountDownState
    /\ [][\A b \in CountDownBodies :
              out'[b] # out[b] =>
                  /\ TopLevelDone
                  /\ timers # <<>> /\ Head(timers) = b
                  /\ Len(out'[b]) = Len(out[b]) + 1]_vars

C12_Witness ==
    /\ \A b \in CountDownBodies : IsDone(b) /\ out[b] = Expected(b)
    /\ timers = <<>>

----------------------------------------------------------------------------
(* C13 *)

ReadingBodies ==
    {HuntCallbacks, HuntDotThen, Terse, Longer, ChainDotThen, ChainAwait}

\* C13: in every scavenger-hunt and log-chain variant the second read is
\* started only once the first has succeeded, and with the first file's
\* content less its last character, whatever that character is; the helper
\* string takes exactly one character off any content and leaves the empty
\* content empty.
C13_SecondReadOfTrimmedName ==
    /\ \A n \in DOMAIN fs :
           /\ string(fs[n]) = AllButLast(fs[n])
           /\ Len(string(fs[n])) = IF fs[n] = <<>> THEN 0 ELSE Len(fs[n]) - 1
    /\ \A b \in ReadingBodies :
           /\ Len(reads[b]) <= 2
           /\ reads[b] # <<>> => reads[b][1] = One
           /\ Len(reads[b]) = 2 =>
                  /\ TopLevelDone
                  /\ One \in DOMAIN fs
                  /\ reads[b][2] = AllButLast(fs[One])
           /\ act[b].status = "waiting" => act[b].op = ReadOp(reads[b][Len(reads[b])])
           /\ IsDone(b) /\ One \in DOMAIN fs => Len(reads[b]) = 2

C13_Witness ==
    /\ One \in DOMAIN fs
    /\ Len(fs[One]) = MaxLen
    /\ fs[One][Len(fs[One])] = "a"
    /\ \A b \in ReadingBodies : IsDone(b) /\ reads[b] = <<One, AllButLast(fs[One])>>

----------------------------------------------------------------------------
(* C14 *)

\* C14: the promise scavengerHuntWithPromiseDotThen and logChainWithDotThen
\* return is pending until the function has printed its line, content or
\* error notice, is fulfilled from then on, and is never rejected.
C14_ReturnedPromiseFulfils ==
    \A b \in {HuntDotThen, ChainDotThen} :
        /\ act[b].ret # "rejected"
        /\ b \notin unhandled
        /\ act[b].status = "waiting" => act[b].ret = "pending" /\ out[b] = <<>>
        /\ act[b].ret = "fulfilled" <=> IsDone(b)
        /\ IsDone(b) => Len(out[b]) = 1

C14_Witness ==
    /\ SecondReadFails
    /\ \A b \in {HuntDotThen, ChainDotThen} :
           act[b].ret = "fulfilled" /\ OneErrorNotice(b)

----------------------------------------------------------------------------
(* C15 *)

\* C15: an invocation of a scavenger-hunt or log-chain variant has printed
\* nothing while a read of its is pending and exactly one line when its reads
\* are over: the content line if both reads succeeded, one error notice if
\* not, never both.
C15_ExactlyOneLine ==
    \A b \in ReadingBodies :
        IF IsDone(b)
        THEN /\ Len(out[b]) = 1
             /\ out[b][1].kind = IF ValidChain THEN "data" ELSE "error"
        ELSE out[b] = <<>>

C15_Witness ==
    /\ FirstReadFails
    /\ \A b \in ReadingBodies : IsDone(b) /\ OneErrorNotice(b)

----------------------------------------------------------------------------
(* C16 *)

\* the positions of marker 4 in what body b printed
Marker4At(b) == {i \in DOMAIN out[b] : out[b][i] = Marker4}

\* C16: a call of getCNN_async_await or getCNN_dot_then prints marker 4 at
\* most once, and only when its request has completed successfully; when the
\* request fails the call ends without marker 4.
C16_Marker4OnSuccessOnly ==
    \A b \in InterleavingDemos :
        /\ Cardinality(Marker4At(b)) <= 1
        /\ Marker4At(b) # {} =>
               /\ net = "ok"
               /\ requests[b] = <<CNN>>
               /\ IsDone(b)
        /\ IsDone(b) /\ net = "ok" => Marker4At(b) # {}

C16_Witness ==
    /\ net = "fail"
    /\ \A b \in InterleavingDemos :
           IsDone(b) /\ out[b] = <<Marker1, Marker2, Marker3>>

====
